---------------------------- MODULE Spec2Model ----------------------------
(***************************************************************************)
(* The three file-processing utilities of the repository:                  *)
(*   convert_numbers.py    integers -> binary / hexadecimal strings        *)
(*   compute_statistics.py floats   -> count, mean, median, mode, ...      *)
(*   word_count.py         text     -> word frequencies                    *)
(*                                                                         *)
(* Strings are sequences of one-character strings.  A Python int is kept   *)
(* as two limbs, hi * Base + lo with 0 <= lo < Base, because the 32-bit    *)
(* mask of convert_numbers needs values beyond the checker's integers.     *)
(***************************************************************************)
EXTENDS Integers, Sequences, FiniteSets, TLC

VARIABLES prog, argv, fstate, content, pc, pending, numbers, data,
          results, word_count, sum_of_words, console, exit, outfile

vars == <<prog, argv, fstate, content, pc, pending, numbers, data,
          results, word_count, sum_of_words, console, exit, outfile>>

(***************************************************************************)
(* Bounds of the model.                                                    *)
(***************************************************************************)
\* longest file content, in characters, of the enumerated small files
MaxText == 4
\* the high limb of the enumerated big integers ranges over -MaxHi..MaxHi
MaxHi == 2
\* the low limb of the enumerated big integers ranges over 0..MaxLo
MaxLo == 12
\* longest data sequence handed to the statistics functions on their own
MaxData == 4
\* the values of such a data sequence range over 1..MaxVal
MaxVal == 3

(***************************************************************************)
(* Program constants.                                                      *)
(***************************************************************************)
\* to_twos_complement(binary_str, bits=32)
Bits == 32
\* binary_representation[-10:]
Shown == 10
\* sys.exit(1): usage error, unreadable file in word_count
ExitUsage == 1
\* sys.exit(2): "No valid data found."
ExitNoData == 2
\* the status of a run that reaches the end of main
ExitOk == 0
\* the status Python gives a run ended by an uncaught exception
ExitUncaught == 1

\* one limb of a Python int: half of the 32-bit mask
LimbBits == Bits \div 2
Base == 2^LimbBits

(***************************************************************************)
(* Characters and strings.                                                 *)
(***************************************************************************)
NL == "\n"
Whitespace == {" ", NL}
DecDigits == <<"0", "1", "2", "3", "4", "5", "6", "7", "8", "9">>
HexChars == DecDigits \o <<"A", "B", "C", "D", "E", "F">>
Letters == {"a", "b", "c", "d", "e", "f", "g", "h", "i", "j", "k", "l", "m",
            "n", "o", "p", "q", "r", "s", "t", "u", "v", "w", "x", "y", "z"}

\* s[-k:] for k > 0
Suffix(s, k) == IF Len(s) <= k THEN s ELSE SubSeq(s, Len(s) - k + 1, Len(s))

RECURSIVE LStrip(_)
LStrip(s) ==
    IF s # <<>> /\ Head(s) \in Whitespace THEN LStrip(Tail(s)) ELSE s

RECURSIVE RStrip(_)
RStrip(s) ==
    IF s # <<>> /\ s[Len(s)] \in Whitespace
    THEN RStrip(SubSeq(s, 1, Len(s) - 1))
    ELSE s

\* str.strip()
Strip(s) == RStrip(LStrip(s))

\* the lines a text file yields when iterated: each keeps its terminator
RECURSIVE FileLines(_)
FileLines(text) ==
    IF text = <<>> THEN <<>>
    ELSE IF \E i \in 1..Len(text) : text[i] = NL
         THEN LET i == CHOOSE j \in 1..Len(text) :
                           text[j] = NL /\ \A k \in 1..(j - 1) : text[k] # NL
              IN  <<SubSeq(text, 1, i)>> \o FileLines(SubSeq(text, i + 1, Len(text)))
         ELSE <<text>>

\* str.split('\n'): the pieces between terminators, the last one included
RECURSIVE SplitNL(_)
SplitNL(text) ==
    IF \E i \in 1..Len(text) : text[i] = NL
    THEN LET i == CHOOSE j \in 1..Len(text) :
                      text[j] = NL /\ \A k \in 1..(j - 1) : text[k] # NL
         IN  <<SubSeq(text, 1, i - 1)>> \o SplitNL(SubSeq(text, i + 1, Len(text)))
    ELSE <<text>>

\* str.split(): the maximal runs of non-whitespace characters
RECURSIVE SplitWS(_)
SplitWS(line) ==
    LET s == LStrip(line) IN
    IF s = <<>> THEN <<>>
    ELSE IF \E i \in 1..Len(s) : s[i] \in Whitespace
         THEN LET i == CHOOSE j \in 1..Len(s) :
                           s[j] \in Whitespace
                           /\ \A k \in 1..(j - 1) : s[k] \notin Whitespace
              IN  <<SubSeq(s, 1, i - 1)>> \o SplitWS(SubSeq(s, i, Len(s)))
         ELSE <<s>>

\* str.isalpha()
IsAlpha(w) == w # <<>> /\ \A i \in 1..Len(w) : w[i] \in Letters

(***************************************************************************)
(* Python integers in two limbs.                                           *)
(***************************************************************************)
PyInt(h, l) == [hi |-> h, lo |-> l]
Zero == PyInt(0, 0)
IsNeg(n) == n.hi < 0

\* -n
Neg(n) == IF n.lo = 0 THEN PyInt(-n.hi, 0) ELSE PyInt(-n.hi - 1, Base - n.lo)

\* 10 * n + d for n >= 0
MulAdd10(n, d) ==
    LET t == n.lo * 10 + d IN PyInt(n.hi * 10 + t \div Base, t % Base)

\* n // 10 and n % 10 for n >= 0
DivMod10(n) ==
    LET t == (n.hi % 10) * Base + n.lo
    IN  [q |-> PyInt(n.hi \div 10, t \div 10), r |-> t % 10]

DigitValue(c) == (CHOOSE i \in 1..Len(DecDigits) : DecDigits[i] = c) - 1
IsDigit(c) == \E i \in 1..Len(DecDigits) : DecDigits[i] = c

RECURSIVE FromDigits(_, _)
FromDigits(acc, s) ==
    IF s = <<>> THEN acc ELSE FromDigits(MulAdd10(acc, DigitValue(Head(s))), Tail(s))

\* int(s): an optional sign, then one or more decimal digits
ParseInt(s) ==
    LET signed == s # <<>> /\ Head(s) \in {"-", "+"}
        body   == IF signed THEN Tail(s) ELSE s
        ok     == body # <<>> /\ \A i \in 1..Len(body) : IsDigit(body[i])
        mag    == IF ok THEN FromDigits(Zero, body) ELSE Zero
    IN  [ok |-> ok,
         val |-> IF signed /\ Head(s) = "-" THEN Neg(mag) ELSE mag]

RECURSIVE DecOf(_)
DecOf(n) ==
    LET d == DivMod10(n) IN
    IF d.q = Zero THEN <<DecDigits[d.r + 1]>>
    ELSE DecOf(d.q) \o <<DecDigits[d.r + 1]>>

\* str(n)
ToDecimal(n) == IF IsNeg(n) THEN <<"-">> \o DecOf(Neg(n)) ELSE DecOf(n)

(***************************************************************************)
(* convert_numbers.py: the encoders.                                       *)
(***************************************************************************)
\* number & 0xffffffff
Mask32(n) == PyInt(n.hi % Base, n.lo)

RECURSIVE MinDigits(_, _, _)
\* the digits of k >= 0 in base b, no leading zero
MinDigits(k, b, chars) ==
    IF k < b THEN <<chars[k + 1]>>
    ELSE MinDigits(k \div b, b, chars) \o <<chars[(k % b) + 1]>>

RECURSIVE ZeroFill(_, _)
ZeroFill(s, w) == IF Len(s) >= w THEN s ELSE ZeroFill(<<"0">> \o s, w)

\* bin(n)[2:] for n >= 0
BinOf(n) ==
    IF n.hi = 0 THEN MinDigits(n.lo, 2, DecDigits)
    ELSE MinDigits(n.hi, 2, DecDigits)
         \o ZeroFill(MinDigits(n.lo, 2, DecDigits), LimbBits)

\* format(n, 'X') for n >= 0
HexOf(n) ==
    IF n.hi = 0 THEN MinDigits(n.lo, 16, HexChars)
    ELSE MinDigits(n.hi, 16, HexChars)
         \o ZeroFill(MinDigits(n.lo, 16, HexChars), LimbBits \div 4)

RECURSIVE to_twos_complement(_, _)
to_twos_complement(binary_str, bits) ==
    IF Len(binary_str) > bits THEN Suffix(binary_str, bits)
    ELSE IF Len(binary_str) < bits
         THEN to_twos_complement(<<"1">> \o binary_str, bits)
         ELSE binary_str

\* mutant: the final [-10:] is left out
convert_to_binary_untruncated(number) ==
    IF ~IsNeg(number) THEN BinOf(number)
    ELSE to_twos_complement(BinOf(Mask32(number)), Bits)

\* mutant: the 32-bit normalization is applied to every number
convert_to_binary_normalized(number) ==
    Suffix(to_twos_complement(BinOf(IF IsNeg(number) THEN Mask32(number)
                                    ELSE number), Bits), Shown)

convert_to_binary(number) ==
    LET binary_representation ==
            IF ~IsNeg(number) THEN BinOf(number)
            ELSE to_twos_complement(BinOf(Mask32(number)), Bits)
    IN  Suffix(binary_representation, Shown)

\* mutant: the "FF" marker of a negative number is left out
convert_to_hexadecimal_unmarked(number) == HexOf(Mask32(number))

convert_to_hexadecimal(number) ==
    LET hexadecimal == HexOf(Mask32(number)) IN
    IF IsNeg(number) THEN <<"F", "F">> \o hexadecimal ELSE hexadecimal

(***************************************************************************)
(* The console and the results file.                                       *)
(***************************************************************************)
Say(tag, text) == [tag |-> tag, text |-> text]
NoFile == [exists |-> FALSE, rows |-> <<>>]
Written(rows) == [exists |-> TRUE, rows |-> rows]
Said(tag) == \E i \in 1..Len(console) : console[i].tag = tag

(***************************************************************************)
(* convert_numbers.py: read_file and main.                                 *)
(***************************************************************************)
IsConvert == prog = "convert_numbers"

\* main: the argument check
Convert_Start ==
    /\ IsConvert /\ pc = "main"
    /\ IF ~argv
       THEN /\ console' = Append(console, Say("Usage", <<>>))
            /\ exit' = ExitUsage
            /\ pc' = "exit"
       ELSE /\ pc' = "open"
            /\ UNCHANGED <<console, exit>>
    /\ UNCHANGED <<prog, argv, fstate, content, pending, numbers, data,
                   results, word_count, sum_of_words, outfile>>

\* read_file: open(file_path); FileNotFoundError and PermissionError return []
Convert_Open ==
    /\ IsConvert /\ pc = "open"
    /\ numbers' = <<>>
    /\ IF fstate = "ok"
       THEN /\ pending' = FileLines(content)
            /\ pc' = "read"
            /\ UNCHANGED console
       ELSE /\ console' = Append(console, Say("Error reading file", <<>>))
            /\ pc' = "check"
            /\ UNCHANGED pending
    /\ UNCHANGED <<prog, argv, fstate, content, data, results, word_count,
                   sum_of_words, exit, outfile>>

\* mutant: an invalid line ends the loop instead of being skipped
Convert_ReadLine_stops ==
    /\ IsConvert /\ pc = "read" /\ pending # <<>>
    /\ LET stripped_line == Strip(Head(pending))
           number == ParseInt(stripped_line)
       IN  IF number.ok
           THEN /\ numbers' = Append(numbers, number.val)
                /\ pending' = Tail(pending)
                /\ UNCHANGED console
           ELSE /\ console' = Append(console, Say("Invalid data", stripped_line))
                /\ pending' = <<>>
                /\ UNCHANGED numbers
    /\ UNCHANGED <<prog, argv, fstate, content, pc, data, results, word_count,
                   sum_of_words, exit, outfile>>

\* read_file: one iteration of "for line in file"
Convert_ReadLine ==
    /\ IsConvert /\ pc = "read" /\ pending # <<>>
    /\ LET stripped_line == Strip(Head(pending))
           number == ParseInt(stripped_line)
       IN  IF number.ok
           THEN /\ numbers' = Append(numbers, number.val)
                /\ UNCHANGED console
           ELSE /\ console' = Append(console, Say("Invalid data", stripped_line))
                /\ UNCHANGED numbers
    /\ pending' = Tail(pending)
    /\ UNCHANGED <<prog, argv, fstate, content, pc, data, results, word_count,
                   sum_of_words, exit, outfile>>

\* read_file: return numbers
Convert_ReadReturn ==
    /\ IsConvert /\ pc = "read" /\ pending = <<>>
    /\ pc' = "check"
    /\ UNCHANGED <<prog, argv, fstate, content, pending, numbers, data, results,
                   word_count, sum_of_words, console, exit, outfile>>

\* main: if not numbers
Convert_Check ==
    /\ IsConvert /\ pc = "check"
    /\ IF numbers = <<>>
       THEN /\ console' = Append(console, Say("No valid data found.", <<>>))
            /\ exit' = ExitNoData
            /\ pc' = "exit"
       ELSE /\ pc' = "convert"
            /\ UNCHANGED <<console, exit>>
    /\ results' = <<>>
    /\ UNCHANGED <<prog, argv, fstate, content, pending, numbers, data,
                   word_count, sum_of_words, outfile>>

\* main: one iteration of "for number in numbers"
Convert_Number ==
    /\ IsConvert /\ pc = "convert" /\ Len(results) < Len(numbers)
    /\ LET number == numbers[Len(results) + 1]
           binary == convert_to_binary(number)
           hexadecimal == convert_to_hexadecimal(number)
       IN  /\ results' = Append(results, [number |-> number, binary |-> binary,
                                          hexadecimal |-> hexadecimal])
           /\ console' = Append(console, Say("Number", ToDecimal(number)))
    /\ UNCHANGED <<prog, argv, fstate, content, pc, pending, numbers, data,
                   word_count, sum_of_words, exit, outfile>>

\* main: write_results_to_file(results), the appended execution time, the end
Convert_Write ==
    /\ IsConvert /\ pc = "convert" /\ Len(results) = Len(numbers)
    /\ outfile' = Written(<<"Number, Binary, Hexadecimal">> \o results
                          \o <<"Execution Time">>)
    /\ console' = console \o <<Say("Results written", <<>>),
                                Say("Execution Time", <<>>)>>
    /\ exit' = ExitOk
    /\ pc' = "exit"
    /\ UNCHANGED <<prog, argv, fstate, content, pending, numbers, data, results,
                   word_count, sum_of_words>>

Convert ==
    \/ Convert_Start
    \/ Convert_Open
    \/ Convert_ReadLine
    \/ Convert_ReadReturn
    \/ Convert_Check
    \/ Convert_Number
    \/ Convert_Write

(***************************************************************************)
(* compute_statistics.py.  A float is kept as an exact fraction num / den  *)
(* in lowest terms with den > 0; rounding is not modelled.                 *)
(***************************************************************************)
RECURSIVE Gcd(_, _)
Gcd(a, b) == IF b = 0 THEN a ELSE Gcd(b, a % b)
Abs(a) == IF a < 0 THEN -a ELSE a

Frac(n, d) ==
    LET g == Gcd(Abs(n), Abs(d))
        sgn == IF d < 0 THEN -1 ELSE 1
    IN  [num |-> sgn * (n \div g), den |-> sgn * (d \div g)]
Whole(k) == [num |-> k, den |-> 1]
FAdd(x, y) == Frac(x.num * y.den + y.num * x.den, x.den * y.den)
FSub(x, y) == Frac(x.num * y.den - y.num * x.den, x.den * y.den)
FMul(x, y) == Frac(x.num * y.num, x.den * y.den)
FDivInt(x, k) == Frac(x.num, x.den * k)
FLess(x, y) == x.num * y.den < y.num * x.den

RECURSIVE DigitsValue(_, _)
DigitsValue(acc, s) ==
    IF s = <<>> THEN acc ELSE DigitsValue(acc * 10 + DigitValue(Head(s)), Tail(s))

\* float(s): an optional sign, then digits with at most one decimal point
ParseFloat(s) ==
    LET signed == s # <<>> /\ Head(s) \in {"-", "+"}
        body   == IF signed THEN Tail(s) ELSE s
        dots   == {i \in 1..Len(body) : body[i] = "."}
        digits == SelectSeq(body, IsDigit)
        ok     == /\ digits # <<>>
                  /\ Cardinality(dots) <= 1
                  /\ Len(digits) + Cardinality(dots) = Len(body)
        places == IF dots = {} THEN 0
                  ELSE Len(body) - (CHOOSE i \in dots : TRUE)
        mag    == IF ok THEN Frac(DigitsValue(0, digits), 10^places) ELSE Whole(0)
    IN  [ok |-> ok,
         val |-> IF signed /\ Head(s) = "-" THEN FSub(Whole(0), mag) ELSE mag]

RECURSIVE Sum(_)
Sum(xs) == IF xs = <<>> THEN Whole(0) ELSE FAdd(Head(xs), Sum(Tail(xs)))

\* x placed after the elements that are not greater: the sort is stable
RECURSIVE InsertAsc(_, _)
InsertAsc(x, xs) ==
    IF xs = <<>> THEN <<x>>
    ELSE IF FLess(x, Head(xs)) THEN <<x>> \o xs
         ELSE <<Head(xs)>> \o InsertAsc(x, Tail(xs))

\* sorted(data)
RECURSIVE Sorted(_)
Sorted(xs) ==
    IF xs = <<>> THEN <<>>
    ELSE InsertAsc(xs[Len(xs)], Sorted(SubSeq(xs, 1, Len(xs) - 1)))

compute_mean(xs) == IF xs # <<>> THEN FDivInt(Sum(xs), Len(xs)) ELSE Whole(0)

\* sorted_data[mid] and sorted_data[-mid-1] are positions mid + 1 and n - mid
compute_median(xs) ==
    LET sorted_data == Sorted(xs)
        n == Len(xs)
        mid == n \div 2
    IN  IF n % 2 = 0
        THEN FDivInt(FAdd(sorted_data[mid + 1], sorted_data[n - mid]), 2)
        ELSE sorted_data[mid + 1]

\* the dict's keys, in the order of first insertion
RECURSIVE Keys(_)
Keys(xs) ==
    IF xs = <<>> THEN <<>>
    ELSE LET before == Keys(SubSeq(xs, 1, Len(xs) - 1))
             x == xs[Len(xs)]
         IN  IF \E i \in 1..Len(before) : before[i] = x THEN before
             ELSE Append(before, x)

\* frequency[num] after the loop
Frequency(xs, x) == Cardinality({i \in 1..Len(xs) : xs[i] = x})

\* the mode: the string "NA", or a value
NA == [na |-> TRUE, value |-> Whole(0)]
ModeIs(x) == [na |-> FALSE, value |-> x]

\* mutant: a tie goes to the value that was inserted last
compute_mode_last(xs) ==
    LET keys == Keys(xs)
        IsMode(k) == \A i \in 1..Len(xs) : Frequency(xs, xs[i]) <= Frequency(xs, k)
        modes == SelectSeq(keys, IsMode)
    IN  IF Len(xs) = Len(modes) THEN NA ELSE ModeIs(modes[Len(modes)])

compute_mode(xs) ==
    LET keys == Keys(xs)
        max_frequency ==
            IF xs = <<>> THEN 0
            ELSE CHOOSE m \in 1..Len(xs) :
                     /\ \E i \in 1..Len(xs) : Frequency(xs, xs[i]) = m
                     /\ \A i \in 1..Len(xs) : Frequency(xs, xs[i]) <= m
        IsMode(k) == Frequency(xs, k) = max_frequency
        modes == SelectSeq(keys, IsMode)
    IN  IF Len(xs) = Len(modes) THEN NA ELSE ModeIs(modes[1])

RECURSIVE SumSq(_, _)
SumSq(xs, mean) ==
    IF xs = <<>> THEN Whole(0)
    ELSE LET dev == FSub(Head(xs), mean)
         IN  FAdd(FMul(dev, dev), SumSq(Tail(xs), mean))

\* the division by len(data) - 1 raises ZeroDivisionError when that is 0
compute_variance(xs, mean) ==
    IF xs = <<>> THEN [raised |-> FALSE, value |-> Whole(0)]
    ELSE IF Len(xs) - 1 = 0 THEN [raised |-> TRUE, value |-> Whole(0)]
         ELSE [raised |-> FALSE,
               value |-> FDivInt(SumSq(xs, mean), Len(xs) - 1)]

\* variance ** 0.5, kept as the value whose root it is
compute_std_dev(variance) == [root_of |-> variance]

IsStats == prog = "compute_statistics"

\* main: the argument check
Stats_Start ==
    /\ IsStats /\ pc = "main"
    /\ IF ~argv
       THEN /\ console' = Append(console, Say("Usage", <<>>))
            /\ exit' = ExitUsage
            /\ pc' = "exit"
       ELSE /\ pc' = "open"
            /\ UNCHANGED <<console, exit>>
    /\ UNCHANGED <<prog, argv, fstate, content, pending, numbers, data,
                   results, word_count, sum_of_words, outfile>>

\* read_file: open(file_path); both failures print and return []
Stats_Open ==
    /\ IsStats /\ pc = "open"
    /\ data' = <<>>
    /\ IF fstate = "ok"
       THEN /\ pending' = FileLines(content)
            /\ pc' = "read"
            /\ UNCHANGED console
       ELSE /\ console' = Append(console,
                   Say(IF fstate = "missing" THEN "File not found"
                       ELSE "Permission denied", <<>>))
            /\ pc' = "check"
            /\ UNCHANGED pending
    /\ UNCHANGED <<prog, argv, fstate, content, numbers, results, word_count,
                   sum_of_words, exit, outfile>>

\* read_file: one iteration of "for line in file"
Stats_ReadLine ==
    /\ IsStats /\ pc = "read" /\ pending # <<>>
    /\ LET stripped_line == Strip(Head(pending))
           number == ParseFloat(stripped_line)
       IN  IF number.ok
           THEN /\ data' = Append(data, number.val)
                /\ UNCHANGED console
           ELSE /\ console' = Append(console, Say("Invalid data", stripped_line))
                /\ UNCHANGED data
    /\ pending' = Tail(pending)
    /\ UNCHANGED <<prog, argv, fstate, content, pc, numbers, results, word_count,
                   sum_of_words, exit, outfile>>

\* read_file: return valid_data
Stats_ReadReturn ==
    /\ IsStats /\ pc = "read" /\ pending = <<>>
    /\ pc' = "check"
    /\ UNCHANGED <<prog, argv, fstate, content, pending, numbers, data, results,
                   word_count, sum_of_words, console, exit, outfile>>

\* main: if not data
Stats_Check ==
    /\ IsStats /\ pc = "check"
    /\ IF data = <<>>
       THEN /\ console' = Append(console, Say("No valid data found.", <<>>))
            /\ exit' = ExitNoData
            /\ pc' = "exit"
       ELSE /\ pc' = "stats"
            /\ UNCHANGED <<console, exit>>
    /\ UNCHANGED <<prog, argv, fstate, content, pending, numbers, data, results,
                   word_count, sum_of_words, outfile>>

\* main: the statistics, the console report and write_results_to_file; an
\* exception raised on the way ends the run before anything is reported
Stats_Compute ==
    /\ IsStats /\ pc = "stats"
    /\ LET count == Len(data)
           mean == compute_mean(data)
           median == compute_median(data)
           mode == compute_mode(data)
           variance == compute_variance(data, mean)
           std_dev == compute_std_dev(variance.value)
           report == [Count |-> count, Mean |-> mean, Median |-> median,
                      Mode |-> mode, StandardDeviation |-> std_dev,
                      Variance |-> variance.value]
       IN  IF variance.raised
           THEN /\ console' = Append(console, Say("ZeroDivisionError", <<>>))
                /\ exit' = ExitUncaught
                /\ UNCHANGED <<results, outfile>>
           ELSE /\ results' = <<report>>
                /\ console' = console \o <<Say("Statistics", <<>>),
                                           Say("Results written", <<>>)>>
                /\ outfile' = Written(<<report>>)
                /\ exit' = ExitOk
    /\ pc' = "exit"
    /\ UNCHANGED <<prog, argv, fstate, content, pending, numbers, data,
                   word_count, sum_of_words>>

Stats ==
    \/ Stats_Start
    \/ Stats_Open
    \/ Stats_ReadLine
    \/ Stats_ReadReturn
    \/ Stats_Check
    \/ Stats_Compute

(***************************************************************************)
(* word_count.py.  The dict is a sequence of entries in insertion order.   *)
(***************************************************************************)
BlankKey == <<"(", "B", "l", "a", "n", "k", ")">>
GrandTotalKey == <<"G", "r", "a", "n", "d", " ", "T", "o", "t", "a", "l">>
Entry(w, c) == [word |-> w, count |-> c]

HasKey(d, w) == \E i \in 1..Len(d) : d[i].word = w
Get(d, w, default) ==
    IF HasKey(d, w) THEN d[CHOOSE i \in 1..Len(d) : d[i].word = w].count
    ELSE default
\* d[w] = c: a new key goes to the end, an old one keeps its place
Put(d, w, c) ==
    IF HasKey(d, w)
    THEN [i \in 1..Len(d) |-> IF d[i].word = w THEN Entry(w, c) ELSE d[i]]
    ELSE Append(d, Entry(w, c))

\* mutant: the isalpha test is left out
RECURSIVE CountTokens_all(_, _)
CountTokens_all(d, words) ==
    IF words = <<>> THEN d
    ELSE CountTokens_all(Put(d, Head(words), Get(d, Head(words), 0) + 1),
                         Tail(words))

\* "for word in words" on one line
RECURSIVE CountTokens(_, _)
CountTokens(d, words) ==
    IF words = <<>> THEN d
    ELSE LET word == Head(words)
         IN  CountTokens(IF IsAlpha(word) THEN Put(d, word, Get(d, word, 0) + 1)
                         ELSE d,
                         Tail(words))

RECURSIVE InvalidTokens(_)
InvalidTokens(words) ==
    IF words = <<>> THEN <<>>
    ELSE (IF IsAlpha(Head(words)) THEN <<>>
          ELSE <<Say("Invalid data", Head(words))>>)
         \o InvalidTokens(Tail(words))

\* e placed after the entries whose count is not smaller: the sort is stable
RECURSIVE InsertDesc(_, _)
InsertDesc(e, es) ==
    IF es = <<>> THEN <<e>>
    ELSE IF e.count > Head(es).count THEN <<e>> \o es
         ELSE <<Head(es)>> \o InsertDesc(e, Tail(es))

\* sorted(word_count.items(), key=lambda x: x[1], reverse=True)
RECURSIVE SortedByCount(_)
SortedByCount(d) ==
    IF d = <<>> THEN <<>>
    ELSE InsertDesc(d[Len(d)], SortedByCount(SubSeq(d, 1, Len(d) - 1)))

RECURSIVE Total(_)
Total(d) == IF d = <<>> THEN 0 ELSE Head(d).count + Total(Tail(d))

IsWords == prog = "word_count"

\* main: the argument check
Words_Start ==
    /\ IsWords /\ pc = "main"
    /\ IF ~argv
       THEN /\ console' = Append(console, Say("Usage", <<>>))
            /\ exit' = ExitUsage
            /\ pc' = "exit"
       ELSE /\ pc' = "open"
            /\ UNCHANGED <<console, exit>>
    /\ UNCHANGED <<prog, argv, fstate, content, pending, numbers, data,
                   results, word_count, sum_of_words, outfile>>

\* read_file, which exits on a failure, and the first lines of count_words
Words_Open ==
    /\ IsWords /\ pc = "open"
    /\ IF fstate = "ok"
       THEN /\ pending' = SplitNL(content)
            /\ word_count' = <<Entry(BlankKey, 0)>>
            /\ pc' = "count"
            /\ UNCHANGED <<console, exit>>
       ELSE /\ console' = Append(console,
                   Say(IF fstate = "missing" THEN "File not found"
                       ELSE "Permission denied", <<>>))
            /\ exit' = ExitUsage
            /\ pc' = "exit"
            /\ UNCHANGED <<pending, word_count>>
    /\ UNCHANGED <<prog, argv, fstate, content, numbers, data, results,
                   sum_of_words, outfile>>

\* count_words: one iteration of "for line in lines"
Words_CountLine ==
    /\ IsWords /\ pc = "count" /\ pending # <<>>
    /\ LET line == Head(pending) IN
       IF Strip(line) = <<>>
       THEN /\ word_count' = Put(word_count, BlankKey,
                                 Get(word_count, BlankKey, 0) + 1)
            /\ UNCHANGED console
       ELSE LET words == SplitWS(line)
            IN  /\ word_count' = CountTokens(word_count, words)
                /\ console' = console \o InvalidTokens(words)
    /\ pending' = Tail(pending)
    /\ UNCHANGED <<prog, argv, fstate, content, pc, numbers, data, results,
                   sum_of_words, exit, outfile>>

\* count_words: return word_count
Words_CountReturn ==
    /\ IsWords /\ pc = "count" /\ pending = <<>>
    /\ pc' = "report"
    /\ UNCHANGED <<prog, argv, fstate, content, pending, numbers, data, results,
                   word_count, sum_of_words, console, exit, outfile>>

\* main: the sorted console report, the grand total, write_results_to_file
\* (which sorts again, the grand total included), the execution time;
\* results keeps the pairs in the order the console shows them
Words_Report ==
    /\ IsWords /\ pc = "report"
    /\ LET shown == SortedByCount(word_count)
           total == Total(shown)
           with_total == Put(word_count, GrandTotalKey, total)
       IN  /\ sum_of_words' = total
           /\ results' = shown
           /\ word_count' = with_total
           /\ console' = console \o <<Say("Counts", <<>>), Say("Grand Total", <<>>),
                                      Say("Results written", <<>>),
                                      Say("Execution Time", <<>>)>>
           /\ outfile' = Written(SortedByCount(with_total))
    /\ exit' = ExitOk
    /\ pc' = "exit"
    /\ UNCHANGED <<prog, argv, fstate, content, pending, numbers, data>>

Words ==
    \/ Words_Start
    \/ Words_Open
    \/ Words_CountLine
    \/ Words_CountReturn
    \/ Words_Report

(***************************************************************************)
(* The runs: a utility, its command line, the file it is given.            *)
(***************************************************************************)
Programs == {"convert_numbers", "compute_statistics", "word_count"}
SmallChars == {"1", "a", "-", " ", NL}
SmallTexts == UNION {[1..m -> SmallChars] : m \in 0..MaxText}
\* the file of the end-to-end scenario: 10, -5, abc, 3.5
Scenario == <<"1", "0", NL, "-", "5", NL, "a", "b", "c", NL, "3", ".", "5">>

Pow2s == {2^k : k \in 0..(LimbBits - 1)}
EdgeHi == {-2 * Base, -Base - 1, -Base, -Base + 1, -(Base \div 2) - 1,
           -(Base \div 2), (Base \div 2) - 1, Base \div 2, Base - 1, Base,
           Base + 1}
EdgeLo == Pow2s \cup {p - 1 : p \in Pow2s} \cup {p + 1 : p \in Pow2s}
          \cup {Base - 1}
BigInts == {PyInt(h, l) : h \in (-MaxHi..MaxHi) \cup EdgeHi,
                          l \in (0..MaxLo) \cup EdgeLo}
\* one integer per file, written in decimal
BigTexts == {ToDecimal(n) \o <<NL>> : n \in BigInts}

Files(p) ==
    SmallTexts \cup {Scenario}
    \cup (IF p = "convert_numbers" THEN BigTexts ELSE {})

Init ==
    /\ prog \in Programs
    /\ argv \in BOOLEAN
    /\ fstate \in {"ok", "missing", "denied"}
    /\ content \in Files(prog)
    /\ argv = FALSE => fstate = "ok"
    /\ fstate # "ok" \/ ~argv => content = <<>>
    /\ pc = "main"
    /\ pending = <<>>
    /\ numbers = <<>>
    /\ data = <<>>
    /\ results = <<>>
    /\ word_count = <<>>
    /\ sum_of_words = 0
    /\ console = <<>>
    /\ exit = -1
    /\ outfile = NoFile

Next == Convert \/ Stats \/ Words

Spec == Init /\ [][Next]_vars

(***************************************************************************)
(* The statistics functions on their own: each is called once on a data    *)
(* sequence, the empty one included.                                       *)
(***************************************************************************)
DataSeqs == UNION {[1..m -> {Whole(k) : k \in 1..MaxVal}] : m \in 0..MaxData}

InitFun ==
    /\ prog = "compute_statistics"
    /\ argv = TRUE
    /\ fstate = "ok"
    /\ content = <<>>
    /\ pc = "call"
    /\ pending = <<>>
    /\ numbers = <<>>
    /\ data \in DataSeqs
    /\ results = <<>>
    /\ word_count = <<>>
    /\ sum_of_words = 0
    /\ console = <<>>
    /\ exit = -1
    /\ outfile = NoFile

Call_compute_mode ==
    /\ pc = "call"
    /\ results' = <<[Mode |-> compute_mode(data)]>>
    /\ pc' = "mode"
    /\ UNCHANGED <<prog, argv, fstate, content, pending, numbers, data,
                   word_count, sum_of_words, console, exit, outfile>>

Call_compute_variance ==
    /\ pc = "call"
    /\ results' = <<[Variance |-> compute_variance(data, compute_mean(data))]>>
    /\ pc' = "variance"
    /\ UNCHANGED <<prog, argv, fstate, content, pending, numbers, data,
                   word_count, sum_of_words, console, exit, outfile>>

NextFun == Call_compute_mode \/ Call_compute_variance

SpecFun == InitFun /\ [][NextFun]_vars

(***************************************************************************)
(* What the claims are stated with.                                        *)
(***************************************************************************)
Records == {results[i] : i \in 1..Len(results)}
IsBinaryString(s) == \A i \in 1..Len(s) : s[i] \in {"0", "1"}

\* a string of '0' and '1' read as an unsigned base-2 number
RECURSIVE Unsigned(_)
Unsigned(s) ==
    IF s = <<>> THEN 0
    ELSE 2 * Unsigned(SubSeq(s, 1, Len(s) - 1)) + (IF s[Len(s)] = "1" THEN 1 ELSE 0)

\* n mod 2^10: Base is a multiple of 2^10
Mod1024(n) == n.lo % (2^Shown)
\* the number of base-2 digits of k >= 0, one for 0
BitLength(k) == CHOOSE w \in 1..(LimbBits + 1) :
                    k < 2^w /\ (w > 1 => k >= 2^(w - 1))
\* 0 <= n < 2^9: the numbers whose base-2 digits are fewer than 10
IsSmall(n) == n.hi = 0 /\ n.lo < 2^(Shown - 1)

\* a string of hexadecimal digits read as a number
RECURSIVE HexValue(_)
HexValue(s) ==
    IF s = <<>> THEN Zero
    ELSE LET acc == HexValue(SubSeq(s, 1, Len(s) - 1))
             d == (CHOOSE i \in 1..Len(HexChars) : HexChars[i] = s[Len(s)]) - 1
             t == acc.lo * 16 + d
         IN  PyInt(acc.hi * 16 + t \div Base, t % Base)
IsUpperHex(s) ==
    /\ s # <<>>
    /\ \A i \in 1..Len(s) : \E j \in 1..Len(HexChars) : HexChars[j] = s[i]
    /\ (s[1] = "0" => Len(s) = 1)

C2_RoundTrip ==
    IsConvert => \A r \in Records : Unsigned(r.binary) = Mod1024(r.number)

C4_Hexadecimal ==
    IsConvert =>
        \A r \in Records :
            LET P == IF IsNeg(r.number) THEN <<"F", "F">> ELSE <<>>
                H == SubSeq(r.hexadecimal, Len(P) + 1, Len(r.hexadecimal))
            IN  /\ Len(r.hexadecimal) > Len(P)
                /\ SubSeq(r.hexadecimal, 1, Len(P)) = P
                /\ IsUpperHex(H)
                /\ HexValue(H) = PyInt(r.number.hi % Base, r.number.lo)
                /\ r.number = Zero => r.hexadecimal = <<"0">>
                /\ r.number = PyInt(0, 255) => r.hexadecimal = <<"F", "F">>
                /\ r.number = PyInt(-1, Base - 1) =>
                       r.hexadecimal = [i \in 1..10 |-> "F"]

C4_Witness ==
    /\ IsConvert
    /\ \E r \in Records :
           /\ r.number = PyInt(-1, Base - 1)
           /\ r.hexadecimal = [i \in 1..10 |-> "F"]

\* the lines of the file already read by the loop of read_file
Consumed(all) == SubSeq(all, 1, Len(all) - Len(pending))

\* the integers of the lines that parse, in the order of the lines
RECURSIVE ValidInts(_)
ValidInts(lines) ==
    IF lines = <<>> THEN <<>>
    ELSE LET parsed == ParseInt(Strip(Head(lines)))
         IN  (IF parsed.ok THEN <<parsed.val>> ELSE <<>>) \o ValidInts(Tail(lines))

RECURSIVE ValidFloats(_)
ValidFloats(lines) ==
    IF lines = <<>> THEN <<>>
    ELSE LET parsed == ParseFloat(Strip(Head(lines)))
         IN  (IF parsed.ok THEN <<parsed.val>> ELSE <<>>) \o ValidFloats(Tail(lines))

IsNumberLine(e) == e.tag = "Number"
IsInvalidLine(e) == e.tag = "Invalid data"

\* C5: at every point of the conversion run the numbers read are exactly the
\* integers of the lines read so far that parse, in input order; the result
\* records and the console lines follow the same order, each record holding
\* its number with that number's binary and hexadecimal strings; a run that
\* ends normally has read every line and reported every valid integer once.
C5_InputOrder ==
    (IsConvert /\ argv /\ fstate = "ok") =>
        LET all == FileLines(content)
            reported == SelectSeq(console, IsNumberLine)
        IN  /\ pc = "read" => numbers = ValidInts(Consumed(all))
            /\ pc \in {"check", "convert", "exit"} => numbers = ValidInts(all)
            /\ Len(results) <= Len(numbers)
            /\ Len(reported) = Len(results)
            /\ \A i \in 1..Len(results) :
                   /\ results[i].number = numbers[i]
                   /\ results[i].binary = convert_to_binary(numbers[i])
                   /\ results[i].hexadecimal = convert_to_hexadecimal(numbers[i])
                   /\ reported[i].text = ToDecimal(numbers[i])
            /\ (pc = "exit" /\ exit = ExitOk) =>
                   /\ Len(results) = Len(ValidInts(all))
                   /\ outfile.exists
                   /\ SubSeq(outfile.rows, 2, Len(results) + 1) = results

\* the scenario file: 10 and -5 reported in that order, two lines skipped
C5_Witness ==
    /\ IsConvert /\ pc = "exit" /\ exit = ExitOk
    /\ content = Scenario
    /\ Len(SelectSeq(console, IsInvalidLine)) = 2
    /\ Len(results) = 2
    /\ results[1].number = PyInt(0, 10)
    /\ results[2].number = PyInt(-1, Base - 5)

\* C6: a run of convert_numbers or compute_statistics whose file cannot be
\* opened ends with a non-zero exit status other than the status of a run
\* that finds no valid data.
C6_DistinctExit ==
    (prog \in {"convert_numbers", "compute_statistics"}
     /\ argv /\ fstate # "ok" /\ pc = "exit") =>
        /\ exit # ExitOk
        /\ exit # ExitNoData

\* a maximal run of non-whitespace characters starts at position i
StartsToken(line, i) ==
    /\ line[i] \notin Whitespace
    /\ (i = 1 \/ line[i - 1] \in Whitespace)
\* the token that starts at position i holds only letters
AlphaFrom(line, i) ==
    \E j \in i..Len(line) :
        /\ \A k \in i..j : line[k] \in Letters
        /\ (j = Len(line) \/ line[j + 1] \in Whitespace)
IsBlankLine(line) == \A i \in 1..Len(line) : line[i] \in Whitespace
AlphaTokens(line) ==
    Cardinality({i \in 1..Len(line) : StartsToken(line, i) /\ AlphaFrom(line, i)})
\* the blank lines plus the alphabetic tokens of the other lines
RECURSIVE Countable(_)
Countable(lines) ==
    IF lines = <<>> THEN 0
    ELSE (IF IsBlankLine(Head(lines)) THEN 1 ELSE AlphaTokens(Head(lines)))
         + Countable(Tail(lines))
RECURSIVE AlphaTotal(_)
AlphaTotal(lines) ==
    IF lines = <<>> THEN 0 ELSE AlphaTokens(Head(lines)) + AlphaTotal(Tail(lines))

\* the result set left after filtering is empty
EmptyResultSet ==
    CASE IsConvert -> ValidInts(FileLines(content)) = <<>>
      [] IsStats -> ValidFloats(FileLines(content)) = <<>>
      [] IsWords -> AlphaTotal(SplitNL(content)) = 0

\* C7: in each utility a readable input with an empty result set is reported
\* as "No valid data found.", ends with a non-zero exit status and never
\* gets a results file.
C7_NoDataNoFile ==
    (argv /\ fstate = "ok" /\ EmptyResultSet) =>
        /\ ~outfile.exists
        /\ pc = "exit" => (Said("No valid data found.") /\ exit # ExitOk)

\* C8: a statistics run over a non-empty sequence of valid values, a single
\* value included, ends normally with every statistic produced, the
\* variance being the sum of squared deviations over (count - 1).
C8_AllStatistics ==
    (IsStats /\ pc = "exit" /\ data # <<>>) =>
        /\ exit = ExitOk
        /\ ~Said("ZeroDivisionError")
        /\ Len(results) = 1
        /\ results[1].Count = Len(data)
        /\ FMul(results[1].Variance, Whole(Len(data) - 1))
               = SumSq(data, results[1].Mean)

NonIncreasing(entries) ==
    \A i \in 1..(Len(entries) - 1) : entries[i].count >= entries[i + 1].count

\* C9: after any prefix of the lines the counters sum to the blank lines
\* seen plus the alphabetic tokens seen on the other lines; the grand total
\* of main is that sum over the whole text, and the pairs are emitted, on
\* the console and in the file, in non-increasing order of count.
C9_CounterSum ==
    (IsWords /\ argv /\ fstate = "ok") =>
        LET all == SplitNL(content) IN
        /\ pc = "count" => Total(word_count) = Countable(Consumed(all))
        /\ pc = "report" => Total(word_count) = Countable(all)
        /\ pc = "exit" =>
               /\ sum_of_words = Countable(all)
               /\ Get(word_count, GrandTotalKey, -1) = sum_of_words
               /\ Total(results) = sum_of_words
               /\ NonIncreasing(results)
               /\ NonIncreasing(outfile.rows)
               /\ Len(outfile.rows) = Len(results) + 1

C9_Witness ==
    /\ IsWords /\ pc = "exit"
    /\ Get(word_count, BlankKey, 0) >= 1
    /\ Said("Invalid data")
    /\ sum_of_words >= 2
    /\ Len(results) >= 2

\* the number of occurrences of x in data, and its first position
Occurrences(x) == Cardinality({i \in 1..Len(data) : data[i] = x})
FirstAt(x) == CHOOSE i \in 1..Len(data) :
                  data[i] = x /\ \A j \in 1..(i - 1) : data[j] # x
AllDistinct ==
    \A i, j \in 1..Len(data) : data[i] = data[j] => i = j

\* C10: compute_mode gives "NA" exactly when the values are pairwise
\* distinct (no value, or one, included); otherwise it gives a value of the
\* highest occurrence count, the one first seen earliest among those.
C10_Mode ==
    pc = "mode" =>
        LET mode == results[1].Mode IN
        /\ mode.na <=> AllDistinct
        /\ ~mode.na =>
               /\ \E i \in 1..Len(data) : data[i] = mode.value
               /\ \A i \in 1..Len(data) :
                      /\ Occurrences(data[i]) <= Occurrences(mode.value)
                      /\ Occurrences(data[i]) = Occurrences(mode.value)
                             => FirstAt(mode.value) <= FirstAt(data[i])

\* two values tie for the highest count and the mode is not the smaller one
C10_Witness ==
    /\ pc = "mode"
    /\ data = <<Whole(2), Whole(1), Whole(1), Whole(2)>>
    /\ results[1].Mode = ModeIs(Whole(2))

=============================================================================
